---------------------------- MODULE Spec2Model ----------------------------
(***************************************************************************)
(* Model of libdxwifi/receiver.c: the frame controller (process_frame,     *)
(* handle_frame_control, dump_packet_buffer), the capture loop of          *)
(* receiver_activate_capture and the asynchronous receiver_stop_capture.   *)
(*                                                                         *)
(* Sizes are scaled: a payload block is PayloadSize bytes, a control       *)
(* payload ControlSize bytes, the radiotap header two bytes and the MAC    *)
(* header one.  Only their relations matter to the code (payload size <    *)
(* caplen, caplen not a multiple of the payload size, control size >       *)
(* payload size).  The statistics counters are unsigned 32-bit; the        *)
(* model holds a counter as the representative of least absolute value of  *)
(* its residue modulo 2^32, so -1 stands for 4294967295.                   *)
(***************************************************************************)
EXTENDS Integers, Sequences, FiniteSets, TLC

\* ------------------------------------------------------------------ bounds
MaxFrames == 3

MaxFrameNo == 3

\* ------------------------------------------------- program constants (scaled)
PayloadSize == 2

ControlSize == 3

RtapLen == 2

MacHdrLen == 1

FcsSize == 4

PreambleByte == 254

EotByte == 253

\* ----------------------------------------------------------- pure helpers
Min(a, b) == IF a < b THEN a ELSE b

Fill(n, b) == [i \in 1..n |-> b]

\* Number of bits in which the bytes a and b differ
RECURSIVE BitDiff(_, _)
BitDiff(a, b) ==
    IF a = 0 /\ b = 0 THEN 0
    ELSE (IF a % 2 # b % 2 THEN 1 ELSE 0) + BitDiff(a \div 2, b \div 2)

\* hamming_dist32 of two words, each given as its bytes in memory order
RECURSIVE hamming_dist32(_, _)
hamming_dist32(a, b) ==
    IF a = << >> THEN 0
    ELSE BitDiff(Head(a), Head(b)) + hamming_dist32(Tail(a), Tail(b))

\* *(uint32_t*)addr : the first four bytes of a 6-byte address
AddrTop(addr) == SubSeq(addr, 1, 4)

\* *(uint16_t*)(addr + 4) : the last two bytes
AddrBottom(addr) == SubSeq(addr, 5, 6)

AddrDist(addr, expected) ==
    hamming_dist32(AddrTop(addr), AddrTop(expected))
    + hamming_dist32(AddrBottom(addr), AddrBottom(expected))

Mutant_verify_sender(frame, expected_address, threshold) ==
    \/ AddrDist(frame.addr1, expected_address) <= threshold
    \/ AddrDist(frame.addr2, expected_address) <= threshold
    \/ AddrDist(frame.addr3, expected_address) <= threshold

verify_sender(frame, expected_address, threshold) ==
    \/ AddrDist(frame.addr1, expected_address) < threshold
    \/ AddrDist(frame.addr2, expected_address) < threshold
    \/ AddrDist(frame.addr3, expected_address) < threshold

\* (int32_t) ntohl(*(uint32_t*)(addr1 + 2)) : bytes 2..5 of addr1, big-endian,
\* as the signed frame_number of the heap node
extract_frame_number(frame) ==
    (IF frame.addr1[3] >= 128 THEN frame.addr1[3] - 256 ELSE frame.addr1[3]) * 16777216
    + frame.addr1[4] * 65536 + frame.addr1[5] * 256 + frame.addr1[6]


\* ------------------------------------------------------- captured frames
\* The expected sender address (rx->sender_addr) used by the model's frames
SenderAddr == Fill(6, 170)

\* addr with its first byte's k low bits flipped: Hamming distance k (k <= 8)
FlipBits(addr, k) ==
    [addr EXCEPT ![1] = (@ - (@ % (2 ^ k))) + ((2 ^ k) - 1 - (@ % (2 ^ k)))]

\* addr1 as the transmitter packs it: two address bytes, then the frame
\* number, big-endian, in bytes 2..5
PackAddr1(fn) ==
    << 170, 170, (fn \div 16777216) % 256, (fn \div 65536) % 256,
       (fn \div 256) % 256, fn % 256 >>

CrcCases == {"ok", "small", "bad"}

\* What a capture source can deliver.  addr: the Hamming distances of addr2
\* and addr3 from the sender address, relative to the threshold thr:
\*   near = <<0, 0>>, edge = <<thr, thr - 1>>, at = <<thr, thr>>, far = <<8, 8>>
\* (addr1 carries the frame number and is always far).
\* crc: ok = the FCS matches the crc, small = it matches and the crc is below
\* 256, bad = it does not match.
FrameTemplates ==
    [ kind : {"data", "preamble", "eot", "garbage", "runt"},
      fn   : 0..MaxFrameNo,
      crc  : CrcCases,
      addr : {"near", "edge", "at", "far"} ]

\* Data frames of one sender, frame numbers 0..MaxFrameNo, in any order
SourceOrder ==
    { t \in FrameTemplates : t.kind = "data" /\ t.crc = "ok" /\ t.addr = "near" }

\* Data frames with every FCS case
SourceCrc ==
    { t \in FrameTemplates : t.kind = "data" /\ t.fn \in {0, 1} /\ t.addr = "near"
                             /\ (t.fn = 1 => t.crc = "ok") }

\* Frames of every address distance
SourceAddr ==
    { t \in FrameTemplates : t.kind \in {"data", "preamble"} /\ t.fn = 0
                             /\ t.crc = "ok" /\ (t.kind = "preamble" => t.addr = "far") }

\* Data and control frames of one sender
SourceCtrl ==
    { t \in FrameTemplates : t.fn = 0 /\ t.crc = "ok" /\ t.addr = "near" }

\* A data frame and a preamble
SourceLoop ==
    { t \in SourceCtrl : t.kind \in {"data", "preamble"} }

\* Control frames of which one byte was corrupted on the air (it reads 0):
\* the first byte of the payload ("_head") or the last one ("_tail")
NoisyTemplates ==
    [ kind : {"eot_head", "eot_tail", "preamble_head", "preamble_tail"},
      fn   : {0},
      crc  : {"ok"},
      addr : {"near"} ]

\* Control frames, whole and corrupted, data frames and frames of no known size
SourceClassify == SourceCtrl \cup NoisyTemplates

TemplatePayload(t, id) ==
    CASE t.kind = "data"     -> Fill(PayloadSize, id)
      [] t.kind = "preamble" -> Fill(ControlSize, PreambleByte)
      [] t.kind = "eot"      -> Fill(ControlSize, EotByte)
      [] t.kind = "garbage"  -> <<PreambleByte>> \o Fill(ControlSize - 1, EotByte - 1)
      [] t.kind = "eot_head" -> <<0>> \o Fill(ControlSize - 1, EotByte)
      [] t.kind = "eot_tail" -> Fill(ControlSize - 1, EotByte) \o <<0>>
      [] t.kind = "preamble_head" -> <<0>> \o Fill(ControlSize - 1, PreambleByte)
      [] t.kind = "preamble_tail" -> Fill(ControlSize - 1, PreambleByte) \o <<0>>
      [] OTHER               -> Fill(PayloadSize - 1, id)

\* crc : crc32 of the MAC header and payload as the receiver computes it;
\* fcs : the four FCS bytes that follow the payload (least significant first)
TemplateCrc(t) == IF t.crc = "small" THEN 18 ELSE 305419896

TemplateFcs(t) ==
    CASE t.crc = "ok"    -> << 120, 86, 52, 18 >>
      [] t.crc = "small" -> << 18, 0, 0, 0 >>
      [] OTHER           -> << 121, 86, 52, 18 >>

MakeFrame(t, id, thr, tests) ==
    LET d == CASE t.addr = "near" -> << 0, 0 >>
               [] t.addr = "edge" -> << thr, thr - 1 >>
               [] t.addr = "at"   -> << thr, thr >>
               [] OTHER           -> << 8, 8 >>
        pl == TemplatePayload(t, id)
    IN  [ addr1   |-> PackAddr1(t.fn),
          addr2   |-> FlipBits(SenderAddr, d[1]),
          addr3   |-> FlipBits(SenderAddr, d[2]),
          payload |-> pl,
          crc     |-> TemplateCrc(t),
          fcs     |-> TemplateFcs(t),
          caplen  |-> RtapLen + MacHdrLen + Len(pl)
                      + (IF tests THEN 0 ELSE FcsSize) ]

\* The FCS as the 32-bit value the transmitter appended (values below 2^31)
Fcs32(frame) ==
    frame.fcs[1] + 256 * frame.fcs[2] + 65536 * frame.fcs[3]
    + 16777216 * frame.fcs[4]

\* ------------------------------------------------------ frame classifier
PayloadSizeOf(frame, tests) ==
    frame.caplen - RtapLen - MacHdrLen - (IF tests THEN 0 ELSE FcsSize)

\* The bytes at payload[0..], which run on into the FCS
PayloadRegion(frame) == frame.payload \o frame.fcs

CountByte(frame, b) ==
    Cardinality({ i \in 1..PayloadSize : PayloadRegion(frame)[i] = b })

\* check_threshold = 0.66 : count / payload_size > 0.66
OverThreshold(count, payload_size) == count * 100 > 66 * payload_size

check_frame_control(frame, tests) ==
    LET payload_size == PayloadSizeOf(frame, tests)
        eot          == CountByte(frame, EotByte)
        preamble     == CountByte(frame, PreambleByte)
    IN  IF payload_size = ControlSize
        THEN IF OverThreshold(eot, payload_size) THEN "EOT"
             ELSE IF OverThreshold(preamble, payload_size) THEN "PREAMBLE"
             ELSE "UNKNOWN"
        ELSE IF payload_size # PayloadSize THEN "UNKNOWN"
        ELSE "NONE"


\* ------------------------------------------------------------------ state
VARIABLES
    rx,          \* the receiver's configuration (constant during a capture)
    tests,       \* built with DXWIFI_TESTS (offline replay) or for live capture
    source,      \* the frames the capture source may deliver
    activated,   \* rx->__activated
    breakFlag,   \* the capture handle's break-loop flag (pcap_breakloop)
    fc,          \* the frame_controller of the running capture
    sink,        \* the bytes the sink has accepted
    sinkRoom,    \* bytes the sink still accepts; -1 = no limit
    out,         \* *out, the statistics handed to the caller
    pc,          \* the capture thread's position in receiver_activate_capture
    batch,       \* frames the current pcap_dispatch call has delivered
    stopPc,      \* the position of the caller of receiver_stop_capture
    delivered,   \* frames delivered to process_frame so far
    gen,         \* history: data frames staged since the previous flush
    flushes,     \* history: number of dump_packet_buffer calls so far
    flushLog,    \* history: one record per node popped by the latest flush
    last,        \* history: what the capture thread's latest step was
    hist         \* history: stop and dispatch bookkeeping

vars == << rx, tests, source, activated, breakFlag, fc, sink, sinkRoom, out, pc, batch,
           stopPc, delivered, gen, flushes, flushLog, last, hist >>

\* ---------------------------------------------------------- ordering heap
\* The heap is kept as the sequence of its nodes in insertion order; the root
\* is the first node no other node is ordered before.
Mutant_order_by_frame_number(lhs, rhs) == lhs.frame_number > rhs.frame_number

order_by_frame_number_desc(lhs, rhs) == lhs.frame_number < rhs.frame_number

HeapRoot(heap) ==
    CHOOSE i \in 1..Len(heap) :
        /\ \A j \in 1..Len(heap) : ~order_by_frame_number_desc(heap[j], heap[i])
        /\ \A j \in 1..(i - 1) : order_by_frame_number_desc(heap[i], heap[j])

heap_push(heap, node) == Append(heap, node)

HeapRemove(heap, i) == SubSeq(heap, 1, i - 1) \o SubSeq(heap, i + 1, Len(heap))

\* ------------------------------------------------------------------ sink
\* write(fd, bytes, Len(bytes)): the sink takes what it has room for; a full
\* sink fails the write (-1)
WriteCount(room, n) ==
    IF room = -1 THEN n ELSE IF room = 0 THEN -1 ELSE Min(n, room)

Write(s, bytes) ==
    LET n == WriteCount(s.room, Len(bytes))
    IN  [ s EXCEPT !.sink   = IF n > 0 THEN @ \o SubSeq(bytes, 1, n) ELSE @,
                   !.room   = IF @ = -1 \/ n < 0 THEN @ ELSE @ - n,
                   !.nbytes = n ]

\* for(i = 0; i < missing_blocks; ++i) total_noise_added += write(noise)
RECURSIVE WriteNoise(_, _, _)
WriteNoise(s, missing_blocks, noise) ==
    IF missing_blocks <= 0 THEN s
    ELSE LET w == Write(s, noise)
         IN  WriteNoise([w EXCEPT !.stats.total_noise_added = @ + w.nbytes],
                        missing_blocks - 1, noise)

Mutant_IsGap(ordered, expected_frame, frame_number) ==
    ordered /\ frame_number > expected_frame + 1

\* Is the popped node taken for "data block is missing"?
IsGap(ordered, expected_frame, frame_number) ==
    ordered /\ expected_frame # frame_number

\* The PayloadSize bytes write() reads at node.data.  A byte past the end of
\* the staging buffer is not the buffer's: the read yields whatever lies
\* beyond it.
NodeData(buffer, node, beyond) ==
    [ i \in 1..PayloadSize |->
        IF node.data + i \in DOMAIN buffer THEN buffer[node.data + i] ELSE beyond ]

\* One iteration of the while(heap_pop(...)) loop of dump_packet_buffer
DumpNode(s, node, cfg, buffer) ==
    LET gap     == IsGap(cfg.ordered, s.expected_frame, node.frame_number)
        missing == node.frame_number - s.expected_frame
        s1      == IF gap /\ cfg.add_noise
                   THEN WriteNoise(s, missing, Fill(PayloadSize, cfg.noise_value))
                   ELSE s
        s2      == IF gap
                   THEN [s1 EXCEPT !.stats.total_blocks_lost = @ + missing]
                   ELSE s1
        w       == Write(s2, NodeData(buffer, node, s.beyond))
    IN  [ w EXCEPT !.stats.total_writelen = @ + w.nbytes,
                  !.expected_frame = node.frame_number + 1,
                  !.log = Append(@, [ frame_number |-> node.frame_number,
                                      expected     |-> s.expected_frame,
                                      lost0        |-> s.stats.total_blocks_lost,
                                      lost1        |-> s2.stats.total_blocks_lost,
                                      data         |-> node.data,
                                      from         |-> Len(s.sink),
                                      mid          |-> Len(s2.sink),
                                      to           |-> Len(w.sink),
                                      full         |-> s.room = -1 ]) ]

RECURSIVE Mutant_DumpLoop(_, _, _)
Mutant_DumpLoop(s, cfg, buffer) ==
    IF s.heap = << >> \/ s.nbytes < 0 THEN s
    ELSE LET i == HeapRoot(s.heap)
         IN  Mutant_DumpLoop(DumpNode([s EXCEPT !.heap = HeapRemove(@, i)],
                                      s.heap[i], cfg, buffer),
                             cfg, buffer)

\* while(heap_pop(&fc->packet_heap, &node)) { ... }
RECURSIVE DumpLoop(_, _, _)
DumpLoop(s, cfg, buffer) ==
    IF s.heap = << >> THEN s
    ELSE LET i == HeapRoot(s.heap)
         IN  DumpLoop(DumpNode([s EXCEPT !.heap = HeapRemove(@, i)],
                               s.heap[i], cfg, buffer),
                      cfg, buffer)

Mutant_ExpectedFrameInit(heap) == 0

\* int32_t expected_frame = ((packet_heap_node*)fc->packet_heap.tree)->frame_number
\* : the frame number of the root; with an empty heap the value is never used
ExpectedFrameInit(heap) ==
    IF heap = << >> THEN 0 ELSE heap[HeapRoot(heap)].frame_number

\* dump_packet_buffer on the controller f with the sink e = [sink, room] and
\* e.beyond, what the memory past the staging buffer reads as; yields the
\* controller, the sink and the log of the nodes popped
dump_packet_buffer(f, e, cfg) ==
    LET s == DumpLoop([ heap           |-> f.packet_heap,
                        expected_frame |-> ExpectedFrameInit(f.packet_heap),
                        stats          |-> f.rx_stats,
                        sink           |-> e.sink,
                        room           |-> e.room,
                        beyond         |-> e.beyond,
                        nbytes         |-> 0,
                        log            |-> << >> ],
                      cfg, f.packet_buffer)
    IN  [ fc   |-> [f EXCEPT !.packet_heap = s.heap,
                             !.rx_stats = s.stats,
                             !.index = 0],
          sink |-> s.sink,
          room |-> s.room,
          log  |-> s.log ]


\* ------------------------------------------------------- frame controller
ZeroStats ==
    [ num_packets_processed |-> 0, packets_dropped |-> 0, bad_crcs |-> 0,
      total_caplen |-> 0, total_payload_size |-> 0, total_writelen |-> 0,
      total_noise_added |-> 0, total_blocks_lost |-> 0,
      capture_state |-> "ZERO" ]

\* *out before receiver_activate_capture has written it
NotReturned == [ZeroStats EXCEPT !.capture_state = "none"]

init_frame_controller(cfg) ==
    [ index         |-> 0,
      end_capture   |-> FALSE,
      eot_reached   |-> FALSE,
      preamble_recv |-> FALSE,
      pb_size       |-> cfg.packet_buffer_size,
      rx_stats      |-> [ZeroStats EXCEPT !.capture_state = "NORMAL"],
      packet_buffer |-> Fill(cfg.packet_buffer_size, 0),
      packet_heap   |-> << >> ]

teardown_frame_controller(f) ==
    [ f EXCEPT !.packet_heap = << >>,
               !.packet_buffer = << >>,
               !.pb_size = 0,
               !.index = 0,
               !.rx_stats = ZeroStats ]

\* case DXWIFI_CONTROL_FRAME_PREAMBLE: does this preamble end the capture?
PreambleEndsCapture(f) == f.rx_stats.num_packets_processed > 0

Mutant_handle_frame_control(f, type) ==
    CASE type = "PREAMBLE" ->
            [f EXCEPT !.end_capture = IF PreambleEndsCapture(f) THEN TRUE ELSE @,
                      !.preamble_recv = TRUE]
      [] type = "EOT" -> [f EXCEPT !.eot_reached = TRUE, !.end_capture = TRUE]
      [] OTHER -> f

handle_frame_control(f, type) ==
    CASE type = "PREAMBLE" ->
            [f EXCEPT !.end_capture = IF PreambleEndsCapture(f) THEN TRUE ELSE @,
                      !.preamble_recv = TRUE]
      [] type = "EOT" -> [f EXCEPT !.eot_reached = TRUE]
      [] OTHER -> f

\* bool crc_valid = (crc == *rx_frame.fcs); fcs points at bytes
CrcValid(frame) == frame.crc = frame.fcs[1]

\* fc->rx_stats.bad_crcs += !crc_valid ? 0 : 1
BadCrcIncrement(crc_valid) == IF ~crc_valid THEN 0 ELSE 1

\* memcpy(packet_buffer + index, payload, DXWIFI_TX_PAYLOAD_SIZE); the bytes
\* that fall past the end of the buffer do not reach it
CopyPayload(buffer, index, payload) ==
    [ i \in 1..Len(buffer) |->
        IF i > index /\ i <= index + PayloadSize THEN payload[i - index]
        ELSE buffer[i] ]

\* The largest packet_buffer_size a receiver is configured with (scaled)
DXWIFI_RX_PACKET_BUFFER_SIZE_MAX == 40

\* The transmitter's block size: the payload block
DXWIFI_TX_BLOCKSIZE == PayloadSize

\* ((DXWIFI_RX_PACKET_BUFFER_SIZE_MAX / DXWIFI_TX_BLOCKSIZE) + 1)
DXWIFI_RX_PACKET_HEAP_CAPACITY ==
    (DXWIFI_RX_PACKET_BUFFER_SIZE_MAX \div DXWIFI_TX_BLOCKSIZE) + 1

Mutant_BufferFull_Max(f) == f.index + PayloadSize >= DXWIFI_RX_PACKET_BUFFER_SIZE_MAX

\* Buffer is full, write it out first
BufferFull(f) == f.index + PayloadSize >= f.pb_size

Mutant_NodeFrameNumber(f, frame, cfg) == extract_frame_number(frame)

\* int32_t frame_number = (fc->rx->ordered ? extract_frame_number(...)
\*                                         : fc->rx_stats.num_packets_processed)
NodeFrameNumber(f, frame, cfg) ==
    IF cfg.ordered THEN extract_frame_number(frame)
    ELSE f.rx_stats.num_packets_processed

\* fc->index += pkt_stats->caplen
NextIndex(index, caplen) == index + caplen

\* The data path of process_frame, after the optional pre-flush
StageFrame(f, frame, cfg, payload_size) ==
    LET frame_number == NodeFrameNumber(f, frame, cfg)
        crc_valid    == CrcValid(frame)
        node         == [ frame_number |-> frame_number,
                          data         |-> f.index,
                          crc_valid    |-> crc_valid ]
    IN  [ f EXCEPT
            !.packet_buffer = CopyPayload(@, f.index, frame.payload),
            !.packet_heap   = heap_push(@, node),
            !.index         = NextIndex(@, frame.caplen),
            !.rx_stats      =
                [ @ EXCEPT !.total_caplen          = @ + frame.caplen,
                           !.total_payload_size    = @ + payload_size,
                           !.num_packets_processed = @ + 1,
                           !.bad_crcs = @ + BadCrcIncrement(crc_valid) ] ]

\* process_frame: yields the controller, the sink, the log of a pre-flush (if
\* one ran), the controller as it was when the payload was copied (dumped),
\* what check_frame_control returned (ctrl; "" if it was not called) and what
\* became of the frame
process_frame(f, e, frame, cfg, tst) ==
    LET same == [ fc |-> f, sink |-> e.sink, room |-> e.room, log |-> << >>,
                  flushed |-> FALSE, dumped |-> f, type |-> "DROPPED",
                  ctrl |-> "" ]
    IN  IF ~verify_sender(frame, cfg.sender_addr, cfg.max_hamming_dist)
        THEN [ same EXCEPT !.fc.rx_stats.packets_dropped = @ + 1 ]
        ELSE LET ctrl_frame == check_frame_control(frame, tst)
             IN  IF ctrl_frame = "UNKNOWN"
                 THEN [ same EXCEPT !.type = "UNKNOWN", !.ctrl = ctrl_frame ]
                 ELSE IF ctrl_frame # "NONE"
                 THEN [ same EXCEPT !.fc = handle_frame_control(f, ctrl_frame),
                                    !.type = ctrl_frame,
                                    !.ctrl = ctrl_frame ]
                 ELSE LET payload_size == PayloadSizeOf(frame, tst)
                      IN  IF payload_size # PayloadSize
                          THEN [ same EXCEPT !.type = "BADSIZE", !.ctrl = ctrl_frame ]
                          ELSE LET d == IF BufferFull(f)
                                        THEN dump_packet_buffer(f, e, cfg)
                                        ELSE [ fc |-> f, sink |-> e.sink,
                                               room |-> e.room, log |-> << >> ]
                               IN  [ fc      |-> StageFrame(d.fc, frame, cfg, payload_size),
                                     sink    |-> d.sink,
                                     room    |-> d.room,
                                     log     |-> d.log,
                                     flushed |-> BufferFull(f),
                                     dumped  |-> d.fc,
                                     type    |-> "DATA",
                                     ctrl    |-> ctrl_frame ]


\* ------------------------------------------------------------ configuration
PbSizes == {10, 40}

DispatchCounts == {1, 2}

SinkRooms == {-1, 3}

Configs ==
    [ ordered            : BOOLEAN,
      add_noise          : BOOLEAN,
      noise_value        : {255},
      packet_buffer_size : PbSizes,
      max_hamming_dist   : {5},
      dispatch_count     : DispatchCounts,
      sender_addr        : {SenderAddr} ]

NoHist ==
    [ stopAt    |-> "none",   \* where the capture thread was when stop cleared activated
      afterStop |-> 0,        \* dispatch batches started after that (counted to 2)
      timedOut  |-> FALSE,    \* the readiness wait has returned 0
      endAt     |-> -1,       \* data frames processed when end_capture was set
      badFcs    |-> 0,        \* processed data frames whose crc did not match the FCS
      eof       |-> FALSE,    \* the dispatch has reported the end of the stream
      all       |-> << >>,    \* the data frames staged so far, in arrival order
      copyAt    |-> -1,       \* write_index when the latest payload was copied
      dumpHeap  |-> 0,        \* nodes left in the heap by the latest flush
      dumpIndex |-> 0,        \* write_index left by the latest flush
      ctrl      |-> "",       \* what check_frame_control returned for the latest frame
      payload   |-> << >> ]   \* the payload of the latest frame it classified

\* The state at the "Starting packet capture..." line of
\* receiver_activate_capture: the frame controller is initialised
InitWith(cfgs, builds, rooms, sources) ==
    /\ rx \in cfgs
    /\ tests \in builds
    /\ sinkRoom \in rooms
    /\ source \in sources
    /\ activated = FALSE
    /\ breakFlag = FALSE
    /\ fc = init_frame_controller(rx)
    /\ sink = << >>
    /\ out = NotReturned
    /\ pc = "start"
    /\ batch = 0
    /\ stopPc = "idle"
    /\ delivered = 0
    /\ gen = << >>
    /\ flushes = 0
    /\ flushLog = << >>
    /\ last = [op |-> "none", type |-> "none", dists |-> << >>]
    /\ hist = NoHist

\* ------------------------------------------------------- the capture thread
\* rx->__activated = true
Activate ==
    /\ pc = "start"
    /\ activated' = TRUE
    /\ pc' = "loop"
    /\ last' = [op |-> "activate", type |-> "none", dists |-> << >>]
    /\ UNCHANGED << rx, tests, source, breakFlag, fc, sink, sinkRoom, out, batch, stopPc,
                    delivered, gen, flushes, flushLog, hist >>

Mutant_LoopCondition == ~fc.end_capture

\* while(rx->__activated && !fc.end_capture)
LoopCondition == activated /\ ~fc.end_capture

LoopCheck ==
    /\ pc = "loop"
    /\ pc' = IF LoopCondition THEN "poll" ELSE "final"
    /\ last' = [op |-> "check", type |-> IF LoopCondition THEN "stay" ELSE "exit", dists |-> << >>]
    /\ UNCHANGED << rx, tests, source, activated, breakFlag, fc, sink, sinkRoom, out,
                    batch, stopPc, delivered, gen, flushes, flushLog, hist >>

Mutant_TimeoutActivated == activated

\* status == 0 : the readiness wait timed out; rx->__activated = false
TimeoutActivated == FALSE

PollTimeout ==
    /\ pc = "poll"
    /\ fc' = [fc EXCEPT !.rx_stats.capture_state = "TIMED_OUT"]
    /\ activated' = TimeoutActivated
    /\ pc' = "loop"
    /\ hist' = [hist EXCEPT !.timedOut = TRUE]
    /\ last' = [op |-> "poll", type |-> "timeout", dists |-> << >>]
    /\ UNCHANGED << rx, tests, source, breakFlag, sink, sinkRoom, out, batch, stopPc,
                    delivered, gen, flushes, flushLog >>

\* status < 0 : the wait failed, or a signal interrupted it
PollError ==
    /\ pc = "poll"
    /\ fc' = [fc EXCEPT !.rx_stats.capture_state =
                            IF activated THEN "ERROR" ELSE "DEACTIVATED"]
    /\ pc' = "loop"
    /\ last' = [op |-> "poll", type |-> "error", dists |-> << >>]
    /\ UNCHANGED << rx, tests, source, activated, breakFlag, sink, sinkRoom, out, batch,
                    stopPc, delivered, gen, flushes, flushLog, hist >>

\* The positions of the capture thread inside the while loop
LoopPositions == {"loop", "poll", "dispatch"}

\* status > 0 : pcap_dispatch is called
PollReady ==
    /\ pc = "poll"
    /\ pc' = "dispatch"
    /\ batch' = 0
    /\ hist' = [hist EXCEPT !.afterStop = IF hist.stopAt \in LoopPositions
                                           THEN Min(@ + 1, 2) ELSE @]
    /\ last' = [op |-> "poll", type |-> "ready", dists |-> << >>]
    /\ UNCHANGED << rx, tests, source, activated, breakFlag, fc, sink, sinkRoom, out,
                    stopPc, delivered, gen, flushes, flushLog >>

\* What a read past the end of a staging buffer of the given size can yield
\* (nothing is read there when the buffer holds a payload block)
BeyondBytes(size) == IF size < PayloadSize THEN {0, 99} ELSE {0}

\* pcap_dispatch hands one more frame to process_frame
DispatchFrame(t) ==
    /\ pc = "dispatch"
    /\ ~breakFlag
    /\ batch < rx.dispatch_count
    /\ delivered < MaxFrames
    /\ \E beyond \in BeyondBytes(rx.packet_buffer_size) :
       \E frame \in { MakeFrame(t, delivered + 1, rx.max_hamming_dist, tests) } :
       \E r \in { process_frame(fc, [sink |-> sink, room |-> sinkRoom,
                                     beyond |-> beyond],
                                frame, rx, tests) } :
       LET staged == [ fn |-> t.fn, payload |-> frame.payload ]
       IN  /\ fc' = r.fc
           /\ sink' = r.sink
           /\ sinkRoom' = r.room
           /\ flushes' = IF r.flushed THEN flushes + 1 ELSE flushes
           /\ flushLog' = IF r.flushed THEN r.log ELSE flushLog
           /\ gen' = IF r.type # "DATA" THEN gen
                     ELSE IF r.flushed THEN << staged >>
                     ELSE Append(gen, staged)
           /\ last' = [op |-> "frame", type |-> r.type,
                       dists |-> << AddrDist(frame.addr1, rx.sender_addr),
                                    AddrDist(frame.addr2, rx.sender_addr),
                                    AddrDist(frame.addr3, rx.sender_addr) >>]
           /\ hist' = [hist EXCEPT
                         !.endAt  = IF ~fc.end_capture /\ r.fc.end_capture
                                    THEN fc.rx_stats.num_packets_processed ELSE @,
                         !.badFcs = IF r.type = "DATA" /\ frame.crc # Fcs32(frame)
                                    THEN @ + 1 ELSE @,
                         !.all    = IF r.type = "DATA" THEN Append(@, staged) ELSE @,
                         !.copyAt = IF r.type = "DATA" THEN r.dumped.index ELSE @,
                         !.dumpHeap  = IF r.flushed THEN Len(r.dumped.packet_heap) ELSE @,
                         !.dumpIndex = IF r.flushed THEN r.dumped.index ELSE @,
                         !.ctrl    = r.ctrl,
                         !.payload = IF r.ctrl # "" THEN frame.payload ELSE @]
    /\ batch' = batch + 1
    /\ delivered' = delivered + 1
    /\ UNCHANGED << rx, tests, source, activated, breakFlag, out, pc, stopPc >>

\* pcap_dispatch returns: the frames it delivered, or PCAP_ERROR_BREAK once
\* the break-loop flag is seen (which clears the flag)
DispatchStatus == IF breakFlag THEN -2 ELSE batch

DispatchReturn ==
    /\ pc = "dispatch"
    /\ breakFlag' = FALSE
    /\ IF tests /\ DispatchStatus = 0
       THEN /\ activated' = FALSE
            /\ fc' = [fc EXCEPT !.rx_stats.capture_state = "DEACTIVATED"]
       ELSE UNCHANGED << activated, fc >>
    /\ pc' = "loop"
    /\ last' = [op |-> "return", type |-> IF tests /\ DispatchStatus = 0
                                          THEN "eof" ELSE "none", dists |-> << >>]
    /\ hist' = [hist EXCEPT !.eof = @ \/ (tests /\ DispatchStatus = 0)]
    /\ UNCHANGED << rx, tests, source, sink, sinkRoom, out, batch, stopPc, delivered,
                    gen, flushes, flushLog >>

Mutant_FinalFlush ==
    /\ pc = "final"
    /\ pc' = "copy"
    /\ last' = [op |-> "flush", type |-> "none", dists |-> << >>]
    /\ UNCHANGED << rx, tests, source, activated, breakFlag, fc, sink, sinkRoom, out,
                    batch, stopPc, delivered, gen, flushes, flushLog, hist >>

\* dump_packet_buffer(&fc) after the loop
FinalFlush ==
    /\ pc = "final"
    /\ \E beyond \in BeyondBytes(rx.packet_buffer_size) :
       \E d \in { dump_packet_buffer(fc, [sink |-> sink, room |-> sinkRoom,
                                          beyond |-> beyond], rx) } :
           /\ fc' = d.fc
           /\ sink' = d.sink
           /\ sinkRoom' = d.room
           /\ flushLog' = d.log
           /\ hist' = [hist EXCEPT !.dumpHeap  = Len(d.fc.packet_heap),
                                   !.dumpIndex = d.fc.index]
    /\ flushes' = flushes + 1
    /\ gen' = << >>
    /\ pc' = "copy"
    /\ last' = [op |-> "flush", type |-> "none", dists |-> << >>]
    /\ UNCHANGED << rx, tests, source, activated, breakFlag, out, batch, stopPc,
                    delivered >>

\* *out = fc.rx_stats; teardown_frame_controller(&fc)
ReturnStats ==
    /\ pc = "copy"
    /\ out' = fc.rx_stats
    /\ fc' = teardown_frame_controller(fc)
    /\ pc' = "done"
    /\ last' = [op |-> "copy", type |-> "none", dists |-> << >>]
    /\ UNCHANGED << rx, tests, source, activated, breakFlag, sink, sinkRoom, batch,
                    stopPc, delivered, gen, flushes, flushLog, hist >>

\* ------------------------------------------------- receiver_stop_capture
\* pcap_breakloop(rx->__handle)
StopBreakLoop ==
    /\ stopPc = "idle"
    /\ pc # "done"
    /\ breakFlag' = TRUE
    /\ stopPc' = "broke"
    /\ UNCHANGED << rx, tests, source, activated, fc, sink, sinkRoom, out, pc, batch,
                    delivered, gen, flushes, flushLog, last, hist >>

\* rx->__activated = false
StopClear ==
    /\ stopPc = "broke"
    /\ activated' = FALSE
    /\ stopPc' = "done"
    /\ hist' = [hist EXCEPT !.stopAt = pc]
    /\ UNCHANGED << rx, tests, source, breakFlag, fc, sink, sinkRoom, out, pc, batch,
                    delivered, gen, flushes, flushLog, last >>

CaptureStep ==
    \/ Activate
    \/ LoopCheck
    \/ PollTimeout
    \/ PollError
    \/ PollReady
    \/ \E t \in source : DispatchFrame(t)
    \/ DispatchReturn
    \/ FinalFlush
    \/ ReturnStats

StopStep ==
    \/ StopBreakLoop
    \/ StopClear

Next == CaptureStep \/ StopStep

\* ---------------------------------------------------------- specifications
\* The capture loop with an asynchronous receiver_stop_capture
LoopConfigs ==
    { c \in Configs : c.ordered /\ ~c.add_noise }

Init == InitWith(LoopConfigs, BOOLEAN, {-1}, {SourceLoop})

Spec == Init /\ [][Next]_vars

\* The positions of the capture thread in receiver_activate_capture
CapturePositions == {"start", "loop", "poll", "dispatch", "final", "copy", "done"}

\* The capture thread leaves its position.  Only CaptureStep changes pc, and
\* at every position but "done" a step of CaptureStep that changes pc is
\* enabled (Activate, LoopCheck, PollTimeout, DispatchReturn, FinalFlush,
\* ReturnStats have no guard but the position).
CaptureAdvance == pc # "done" /\ pc' \in CapturePositions \ {pc}

\* The capture thread keeps running: the loop test is evaluated, poll returns
\* (its timeout is finite), pcap_dispatch returns, the flush and the copy end
FairSpec == Spec /\ WF_pc(CaptureAdvance)

\* Reordering: ordered captures of data frames, without a stop
InitOrder ==
    InitWith({ c \in Configs : c.ordered }, BOOLEAN, SinkRooms, {SourceOrder})

SpecOrder == InitOrder /\ [][CaptureStep]_vars

\* Frame handling: every configuration, frames of every kind, without a stop
InitFrames ==
    InitWith(Configs, BOOLEAN, {-1}, {SourceCrc, SourceAddr, SourceCtrl})

SpecFrames == InitFrames /\ [][CaptureStep]_vars

\* Staging: small staging buffers, from less than one payload block up
BufferPbSizes == {1, PayloadSize, 3, 6, 8}

BufferConfigs ==
    { [c EXCEPT !.packet_buffer_size = size] : c \in Configs, size \in BufferPbSizes }

SourceBuffer == { t \in SourceOrder : t.fn \in {0, 1} }

InitBuffer == InitWith(BufferConfigs, BOOLEAN, {-1}, {SourceBuffer})

SpecBuffer == InitBuffer /\ [][CaptureStep]_vars

\* Classification: frames of every payload size, control frames whole and
\* corrupted, in both builds
InitClassify ==
    InitWith({ c \in Configs : ~c.ordered /\ c.packet_buffer_size = 40 },
             BOOLEAN, {-1}, {SourceClassify})

SpecClassify == InitClassify /\ [][CaptureStep]_vars

\* ------------------------------------------------------------------ claims
\* The concatenation of the payloads of the staged frames q, in order
RECURSIVE Payloads(_)
Payloads(q) == IF q = << >> THEN << >> ELSE Head(q).payload \o Payloads(Tail(q))

\* The orders in which the staged frames q can be written by ascending frame
\* number: the rearrangements of q whose frame numbers never decrease
AscendingRuns(q) ==
    { [i \in 1..Len(q) |-> q[p[i]]] :
        p \in { f \in [1..Len(q) -> 1..Len(q)] :
                  /\ \A i, j \in 1..Len(q) : i # j => f[i] # f[j]
                  /\ \A i \in 1..(Len(q) - 1) : q[f[i]].fn <= q[f[i + 1]].fn } }

\* C1: with ordered=true, add_noise=false and a sink that takes every write,
\* each flush appends to the sink exactly the payloads staged since the
\* previous flush, in ascending frame-number order, and nothing but a flush
\* writes to the sink: the sink stream is the concatenation of these runs.
C1_SortedRuns ==
    [][ (rx.ordered /\ ~rx.add_noise /\ sinkRoom = -1) =>
          /\ flushes' = flushes => sink' = sink
          /\ flushes' # flushes =>
                \E run \in AscendingRuns(gen) : sink' = sink \o Payloads(run) ]_vars

\* C1 witness: a pre-flush has written two payloads in the opposite of their
\* arrival order and the frame that caused it has begun the next generation
C1_Witness ==
    /\ rx.ordered /\ ~rx.add_noise /\ sinkRoom = -1
    /\ flushes = 1
    /\ Len(flushLog) = 2
    /\ flushLog[1].data > flushLog[2].data
    /\ flushLog[1].frame_number < flushLog[2].frame_number
    /\ Len(sink) = 2 * PayloadSize
    /\ Len(gen) = 1

\* C2: while the capture runs, bad_crcs equals the number of processed data
\* frames whose computed CRC did not match the frame's FCS.
C2_BadCrcsCountsMismatches ==
    pc # "done" => fc.rx_stats.bad_crcs = hist.badFcs

\* C3: with ordered=true, add_noise=true and a sink that takes every write in
\* full, total_noise_added = total_blocks_lost * payload_block_size after any
\* frames and flushes (until teardown zeroes the statistics).
C3_NoiseMatchesBlocksLost ==
    (rx.ordered /\ rx.add_noise /\ sinkRoom = -1 /\ pc # "done") =>
        fc.rx_stats.total_noise_added = fc.rx_stats.total_blocks_lost * PayloadSize

\* C4: with ordered=true and add_noise=true, when the latest flush popped two
\* consecutive nodes with frame numbers a and b, b > a + 1, total_blocks_lost
\* grew by b - a - 1 at b and, the sink taking every write in full, exactly
\* (b - a - 1) * payload_block_size bytes equal to noise_value lie in the sink
\* between the payload of a and the payload of b.
C4_NoiseFillsGap ==
    (rx.ordered /\ rx.add_noise) =>
        \A i \in 2..Len(flushLog) :
            LET a == flushLog[i - 1].frame_number
                b == flushLog[i].frame_number
            IN  b > a + 1 =>
                  /\ flushLog[i].lost1 - flushLog[i].lost0 = b - a - 1
                  /\ flushLog[i].full =>
                        /\ flushLog[i].from = flushLog[i - 1].to
                        /\ flushLog[i - 1].to - flushLog[i - 1].mid = PayloadSize
                        /\ flushLog[i].mid - flushLog[i].from = (b - a - 1) * PayloadSize
                        /\ \A k \in (flushLog[i].from + 1)..flushLog[i].mid :
                              sink[k] = rx.noise_value
                        /\ flushLog[i].to - flushLog[i].mid = PayloadSize
                        /\ \A k \in (flushLog[i].mid + 1)..flushLog[i].to :
                              sink[k] # rx.noise_value

\* C4 witness: a flush has popped frame numbers 0 and 3 one after the other
\* and written two blocks of noise between their payloads
C4_Witness ==
    /\ rx.ordered /\ rx.add_noise /\ sinkRoom = -1
    /\ \E i \in 2..Len(flushLog) :
          /\ flushLog[i - 1].frame_number = 0
          /\ flushLog[i].frame_number = 3
          /\ flushLog[i].mid - flushLog[i].from = 2 * PayloadSize
          /\ sink[flushLog[i].mid] = rx.noise_value

\* C5: a frame whose addr1, addr2 and addr3 each differ from the expected
\* sender address in at least max_hamming_dist bits adds one to
\* packets_dropped and changes nothing else (heap, staging buffer,
\* write_index, control flags, the other counters, the sink, the loop); a frame
\* with one distance below the threshold leaves packets_dropped as it was.
C5_DropOnlyCounts ==
    [][ (last'.op = "frame" /\ delivered' = delivered + 1) =>
          LET d == last'.dists
          IN  /\ (\A i \in 1..3 : d[i] >= rx.max_hamming_dist) =>
                    /\ fc' = [fc EXCEPT !.rx_stats.packets_dropped = @ + 1]
                    /\ UNCHANGED << sink, sinkRoom, activated, breakFlag, out,
                                    pc, gen, flushes >>
              /\ (\E i \in 1..3 : d[i] < rx.max_hamming_dist) =>
                    fc'.rx_stats.packets_dropped = fc.rx_stats.packets_dropped ]_vars

\* C5 witness: with a block staged, a frame whose nearest address is exactly
\* max_hamming_dist bits away has been dropped
C5_Witness ==
    /\ last.op = "frame"
    /\ last.type = "DROPPED"
    /\ last.dists[2] = rx.max_hamming_dist
    /\ last.dists[3] = rx.max_hamming_dist
    /\ last.dists[1] > rx.max_hamming_dist
    /\ fc.rx_stats.packets_dropped = 1
    /\ fc.packet_heap # << >>

\* The step hands a frame to process_frame
FrameHandled == last'.op = "frame" /\ delivered' = delivered + 1

\* C6: end_capture becomes true exactly in a step that handles a PREAMBLE
\* control frame while num_packets_processed > 0, and is never cleared; a
\* PREAMBLE handled before any data frame only sets preamble_recv; an EOT
\* frame only sets eot_reached.
C6_EndCaptureOnPreambleAfterData ==
    [][ /\ (~fc.end_capture /\ fc'.end_capture) <=>
              /\ FrameHandled
              /\ last'.type = "PREAMBLE"
              /\ fc.rx_stats.num_packets_processed > 0
              /\ ~fc.end_capture
        /\ fc.end_capture => fc'.end_capture
        /\ (FrameHandled /\ last'.type = "PREAMBLE"
                /\ fc.rx_stats.num_packets_processed = 0) =>
              fc' = [fc EXCEPT !.preamble_recv = TRUE]
        /\ (FrameHandled /\ last'.type = "EOT") =>
              fc' = [fc EXCEPT !.eot_reached = TRUE] ]_vars

\* C6 witness: after a data frame and an EOT frame, which left end_capture
\* false, a preamble has set it
C6_Witness ==
    /\ fc.end_capture
    /\ fc.eot_reached
    /\ last.op = "frame"
    /\ last.type = "PREAMBLE"
    /\ out = NotReturned
    /\ hist.endAt = 1

\* C7: once a preamble has set end_capture, no later data frame is staged:
\* the data frames processed stay those that arrived before that preamble, so
\* the sink ends with exactly their blocks.
C7_NothingStagedAfterEndingPreamble ==
    (hist.endAt >= 0 /\ pc # "done") =>
        /\ fc.rx_stats.num_packets_processed = hist.endAt
        /\ (pc = "copy" /\ sinkRoom = -1 /\ fc.rx_stats.total_noise_added = 0) =>
              Len(sink) = hist.endAt * PayloadSize

\* C8: once the readiness wait has returned 0 the capture thread is never
\* again in the wait or in a dispatch: it leaves the loop at the next check,
\* and the statistics, in the controller and then in the caller's copy, carry
\* capture_state = TIMED_OUT.
C8_TimeoutEndsCapture ==
    hist.timedOut =>
        /\ pc \in {"loop", "final", "copy", "done"}
        /\ ~activated
        /\ pc # "done" => fc.rx_stats.capture_state = "TIMED_OUT"
        /\ pc = "done" => out.capture_state = "TIMED_OUT"

\* C8 witness: a capture that staged a frame, timed out and returned
C8_Witness ==
    /\ hist.timedOut
    /\ pc = "done"
    /\ out.capture_state = "TIMED_OUT"
    /\ out.num_packets_processed = 1
    /\ Len(sink) = PayloadSize

\* The capture ended because receiver_stop_capture cleared the activated flag
\* during the loop: not by a timeout, an ending preamble or the end of the
\* stream
EndedByStop ==
    /\ pc = "done"
    /\ hist.stopAt \in LoopPositions
    /\ ~hist.timedOut
    /\ hist.endAt < 0
    /\ ~hist.eof

\* C9: a capture ended by receiver_stop_capture returns capture_state =
\* DEACTIVATED.
C9_StopReportsDeactivated ==
    EndedByStop => out.capture_state = "DEACTIVATED"

\* C10: after receiver_stop_capture has cleared activated during the loop, at
\* most one more dispatch batch is started, the next condition check leaves
\* the loop, the final flush follows, and (the wait and the dispatch
\* returning) the capture ends.
C10_StopEndsLoop ==
    /\ [](hist.stopAt \in LoopPositions => hist.afterStop <= 1)
    /\ [][ (hist.stopAt \in LoopPositions /\ pc = "loop") => pc' = "final" ]_vars
    /\ [][ (pc = "final" /\ pc' # "final") =>
              (flushes' = flushes + 1 /\ fc'.packet_heap = << >>) ]_vars
    /\ (hist.stopAt \in LoopPositions) ~> (pc = "done")

\* C10 witness: the stop came during the readiness wait, one more batch was
\* dispatched and delivered a frame, and the capture has ended
C10_Witness ==
    /\ hist.stopAt = "poll"
    /\ hist.afterStop = 1
    /\ pc = "done"
    /\ out.num_packets_processed = 1
    /\ Len(sink) = PayloadSize

\* Block k of the sink, the sink taken as payload-size blocks
SinkBlock(k) == SubSeq(sink, (k - 1) * PayloadSize + 1, k * PayloadSize)

\* C11: whichever way the loop was left, the final flush has run before the
\* statistics are copied and torn down: on return the heap was emptied, every
\* data frame counted in the returned num_packets_processed is in the sink
\* exactly once and (the sink taking every write in full, no noise added)
\* the returned total_writelen = num_packets_processed * payload_block_size.
C11_FlushedBeforeReturn ==
    /\ pc = "copy" => fc.packet_heap = << >>
    /\ (pc = "done" /\ sinkRoom = -1 /\ ~rx.add_noise) =>
          /\ out.num_packets_processed = Len(hist.all)
          /\ out.total_writelen = out.num_packets_processed * PayloadSize
          /\ Len(sink) = out.total_writelen
          /\ \A k \in 1..Len(hist.all) :
                Cardinality({ j \in 1..Len(hist.all) :
                                SinkBlock(j) = hist.all[k].payload }) = 1

\* C11 witness: a capture ended by a preamble after two data frames has
\* returned, both blocks written by the final flush
C11_Witness ==
    /\ pc = "done"
    /\ hist.endAt = 2
    /\ flushes = 1
    /\ out.num_packets_processed = 2
    /\ out.total_writelen = 2 * PayloadSize
    /\ Len(sink) = 2 * PayloadSize

\* C12: with ordered=false the sink holds the payloads in their arrival order
\* whatever frame numbers the frames carry (the payloads written so far,
\* followed by those still staged, are the payloads in arrival order), and
\* total_blocks_lost and total_noise_added stay 0, also with add_noise=true.
C12_UnorderedArrivalOrder ==
    ~rx.ordered =>
        /\ sinkRoom = -1 => sink \o Payloads(gen) = Payloads(hist.all)
        /\ pc # "done" => /\ fc.rx_stats.total_blocks_lost = 0
                          /\ fc.rx_stats.total_noise_added = 0
        /\ pc = "done" => /\ out.total_blocks_lost = 0
                          /\ out.total_noise_added = 0

\* C12 witness: with ordered=false and add_noise=true, frame number 1 arrived
\* before frame number 0 and both payloads are in the sink, in that order
C12_Witness ==
    /\ ~rx.ordered /\ rx.add_noise
    /\ Len(hist.all) = 2
    /\ hist.all[1].fn = 1 /\ hist.all[2].fn = 0
    /\ pc = "copy"
    /\ sink = hist.all[1].payload \o hist.all[2].payload

\* The least number of payload blocks that cover n bytes
BlocksFor(n) == (n + PayloadSize - 1) \div PayloadSize

ConsecutiveNumbers(q) ==
    /\ q # << >>
    /\ \A i, j \in 1..Len(q) : i # j => q[i].fn # q[j].fn
    /\ \A i \in 1..Len(q) :
          \/ \A j \in 1..Len(q) : q[j].fn <= q[i].fn
          \/ \E j \in 1..Len(q) : q[j].fn = q[i].fn + 1

\* C14: with ordered=true, when the n data frames of a capture carry
\* consecutive frame numbers, in any order, and packet_buffer_size >= n *
\* payload_block_size, the sink receives the n payloads in ascending
\* frame-number order and total_blocks_lost stays 0.
C14_PermutationReordered ==
    ( /\ rx.ordered /\ sinkRoom = -1
      /\ pc = "copy"
      /\ ConsecutiveNumbers(hist.all)
      /\ rx.packet_buffer_size >= Len(hist.all) * PayloadSize ) =>
        /\ \E run \in AscendingRuns(hist.all) : sink = Payloads(run)
        /\ fc.rx_stats.total_blocks_lost = 0

\* C15: after every process_frame call that stages a data frame, write_index
\* is a multiple of the payload block size.
C15_IndexMultipleOfBlock ==
    (last.op = "frame" /\ last.type = "DATA") => fc.index % PayloadSize = 0

\* C16: every node in the heap refers to a payload-size region that starts
\* inside the staging buffer below write_index, lies wholly inside the
\* buffer, overlaps the region of no other node in the heap, and still holds
\* the payload that was staged there.
C16_NodesReferToDisjointBlocks ==
    \A i \in 1..Len(fc.packet_heap) :
        LET node == fc.packet_heap[i]
        IN  /\ node.data >= 0
            /\ node.data < fc.index
            /\ node.data + PayloadSize <= Len(fc.packet_buffer)
            /\ Len(fc.packet_buffer) = rx.packet_buffer_size
            /\ \A j \in 1..Len(fc.packet_heap) :
                  j # i => \/ fc.packet_heap[j].data + PayloadSize <= node.data
                           \/ node.data + PayloadSize <= fc.packet_heap[j].data
            /\ i <= Len(gen)
            /\ \A k \in 1..PayloadSize :
                  fc.packet_buffer[node.data + k] = gen[i].payload[k]

\* C17: when a data payload is copied into the staging buffer, after the
\* optional pre-flush, write_index + payload_block_size <= packet_buffer_size.
C17_RoomForBlockAtCopy ==
    hist.copyAt >= 0 => hist.copyAt + PayloadSize <= rx.packet_buffer_size

\* C18: every flush, the pre-flush of process_frame and the final one, also
\* of an empty heap and also when a sink write was short or failed, leaves
\* the heap empty and write_index = 0.
C18_FlushEmptiesHeap ==
    /\ flushes > 0 => (hist.dumpHeap = 0 /\ hist.dumpIndex = 0)
    /\ pc = "copy" => (fc.packet_heap = << >> /\ fc.index = 0)

\* C18 witness: the final flush popped three nodes into a sink that took the
\* first block, a part of the second and then failed
C18_Witness ==
    /\ pc = "copy"
    /\ Len(flushLog) = 3
    /\ sinkRoom = 0
    /\ Len(sink) = PayloadSize + 1
    /\ fc.rx_stats.total_writelen = PayloadSize
    /\ fc.packet_heap = << >>
    /\ fc.index = 0

\* C19: in an ordered flush, a popped node whose frame_number is greater than
\* expected_frame adds exactly frame_number - expected_frame to
\* total_blocks_lost, and a node whose frame_number is not greater (a
\* duplicate, say) leaves total_blocks_lost as it was; so the counter never
\* falls below its start, 0.
C19_GapOnlyWhenAhead ==
    rx.ordered =>
        /\ \A i \in 1..Len(flushLog) :
              LET node == flushLog[i]
              IN  IF node.frame_number > node.expected
                  THEN node.lost1 - node.lost0 = node.frame_number - node.expected
                  ELSE node.lost1 = node.lost0
        /\ pc # "done" => fc.rx_stats.total_blocks_lost >= 0

\* C20: the first node a flush pops never triggers gap accounting or noise,
\* whatever frame number the previous flush wrote last: expected_frame starts
\* at the first node's own frame number, so blocks missing between two flush
\* generations add nothing to total_blocks_lost or total_noise_added.
C20_FirstNodeNoGap ==
    (rx.ordered /\ flushLog # << >>) =>
        /\ flushLog[1].expected = flushLog[1].frame_number
        /\ flushLog[1].lost1 = flushLog[1].lost0
        /\ flushLog[1].mid = flushLog[1].from

\* C20 witness: with add_noise, frame 0 was flushed alone and the next flush
\* began with frame 3: nothing is counted lost and no noise is in the sink
C20_Witness ==
    /\ rx.ordered /\ rx.add_noise /\ sinkRoom = -1
    /\ pc = "copy"
    /\ flushes = 2
    /\ Len(hist.all) = 2
    /\ hist.all[1].fn = 0
    /\ flushLog[1].frame_number = 3
    /\ fc.rx_stats.total_blocks_lost = 0
    /\ fc.rx_stats.total_noise_added = 0
    /\ sink = hist.all[1].payload \o hist.all[2].payload

\* The number of bytes of the payload p that equal b
SentinelCount(p, b) == Cardinality({ i \in 1..Len(p) : p[i] = b })

\* The classification by payload size and majority vote over the payload p
MajorityClass(p) ==
    IF Len(p) = PayloadSize THEN "NONE"
    ELSE IF Len(p) # ControlSize THEN "UNKNOWN"
    ELSE IF OverThreshold(SentinelCount(p, EotByte), Len(p)) THEN "EOT"
    ELSE IF OverThreshold(SentinelCount(p, PreambleByte), Len(p)) THEN "PREAMBLE"
    ELSE "UNKNOWN"

\* C21: check_frame_control classifies by payload size and majority vote: a
\* payload of the data block size yields NONE, one of neither the data nor
\* the control size UNKNOWN, and a control-sized payload yields EOT when more
\* than 0.66 of its bytes are the EOT sentinel, else PREAMBLE when more than
\* 0.66 of them are the PREAMBLE sentinel, else UNKNOWN, whatever its
\* remaining bytes are.
C21_ClassifiesByMajority ==
    hist.ctrl # "" => hist.ctrl = MajorityClass(hist.payload)


\* C22: a stop request is never lost: once receiver_stop_capture has returned,
\* at whatever point after the entry of receiver_activate_capture it was
\* called (also before the capture thread sets activated = true), the next
\* check of the loop condition leaves the loop.
C22_StopNeverLost ==
    [][ (stopPc = "done" /\ pc = "loop") => pc' = "final" ]_vars

=============================================================================
